---------------------------- MODULE Spec2Model ----------------------------
(***************************************************************************)
(* Moonlander (raylib): the session state machine of Game::Update and      *)
(* Game::UpdateUI, the craft of Lander::Update / Lander::Reset and the     *)
(* terrain of Game::Randomize.                                             *)
(*                                                                         *)
(* Fixed-point units (the program computes in float):                      *)
(*   lengths, velocities, fuel      1/1000   (50.0f is 50000)              *)
(*   gravity, thrust, fuel burn     1/100    (INITIAL_GRAVITY 1.0f is 100) *)
(*   frame time dt, clock           1/10 s   (inputDelay 0.3 is 3)         *)
(*   angles                         whole degrees                          *)
(* so that gravity * dt and fuelConsumption * dt are exact in 1/1000.      *)
(***************************************************************************)
EXTENDS Integers, Sequences, FiniteSets, TLC

(***************************************************************************)
(* Program constants.                                                      *)
(***************************************************************************)
MAX_FUEL_CONSUMPTION == 10
INITIAL_GRAVITY == 100
MAX_GRAVITY == 200
INITIAL_VELOCITY_LIMIT == 800
gravityIncrease == 15
fuelConsumptionIncrease == 1
initialFuelConsumption == 1000
LanderThrust == 250
LanderRotationSpeed == 1
TERRAIN_POINTS == 40
minTerrainHeight == 250
maxTerrainHeight == 50
inputDelay == 3
InitialLives == 3
InitialLevel == 1
WinLevelDesktop == 15
WinLevelMobile == 10
FullFuel == 100000
StartY == 50000
LanderHeight == 60000
FallbackWidth == 20000
LandingPadHalfWidth == 50000
PadMargin == 100000
AngleTolerance == 15
thrustTimeout == 1
\* gameScreenWidth, gameScreenHeight: declared extern in globals.h; the
\* defining translation unit is not among the sources.
gameScreenWidth == 1024
gameScreenHeight == 768

(***************************************************************************)
(* Bounds of the model.                                                    *)
(***************************************************************************)
\* length of a short frame, in 1/10 s
DtShort == 2
\* length of the shortest frame, in 1/10 s
DtTick == 1
\* simultaneous touch points GetTouchPointCount reports
MaxTouches == 1
\* levels at which the player pauses, leaves the window or opens the exit menu
MenuLevels == 1
\* calls of Lander::Update in a row on a craft taken on its own
MaxTicks == 2
\* pad positions and seeds the terrain generator is run on, on its own
NumPads == 100
NumSeeds == 2
\* frame lengths of a flight followed to its end: 1 to FlightFrames times
\* the frame in which thrust burns half a tank
FlightFrames == 2

(***************************************************************************)
(* float helpers                                                           *)
(***************************************************************************)
\* the element of a one-element set; The({ e(v) : v \in {x} }) is e(x) with
\* x evaluated once
The(S) == CHOOSE r \in S : TRUE

\* an array as a stored value: every element computed once
Stored(f) == f @@ f

Abs(a) == IF a < 0 THEN -a ELSE a
Min(a, b) == IF a < b THEN a ELSE b
Max(a, b) == IF a > b THEN a ELSE b
\* C division of a by b > 0, rounding toward zero
Quot(a, b) == IF a >= 0 THEN a \div b ELSE -((-a) \div b)
\* fmodf(a, m): the result has the sign of a
Fmod(a, m) == IF a >= 0 THEN a % m ELSE -((-a) % m)

SinTable ==
  << 0, 17, 35, 52, 70, 87, 105, 122, 139, 156, 174, 191, 208, 225, 242, 259,
     276, 292, 309, 326, 342, 358, 375, 391, 407, 423, 438, 454, 469, 485, 500,
     515, 530, 545, 559, 574, 588, 602, 616, 629, 643, 656, 669, 682, 695, 707,
     719, 731, 743, 755, 766, 777, 788, 799, 809, 819, 829, 839, 848, 857, 866,
     875, 883, 891, 899, 906, 914, 921, 927, 934, 940, 946, 951, 956, 961, 966,
     970, 974, 978, 982, 985, 988, 990, 993, 995, 996, 998, 999, 999, 1000,
     1000 >>
\* 1000 * sinf(deg * DEG2RAD), deg a whole number of degrees
Sin1000(deg) ==
  LET a == deg % 360
  IN IF a <= 90 THEN SinTable[a + 1]
     ELSE IF a <= 180 THEN SinTable[180 - a + 1]
     ELSE IF a <= 270 THEN -SinTable[a - 180 + 1]
     ELSE -SinTable[360 - a + 1]
Cos1000(deg) == Sin1000(deg + 90)

(***************************************************************************)
(* Game::Randomize                                                         *)
(***************************************************************************)
SegmentWidth == (gameScreenWidth * 1000) \div (TERRAIN_POINTS - 1)
LandingPadHeight == (gameScreenHeight - 50) * 1000
TerrainX(i) == (i * gameScreenWidth * 1000) \div (TERRAIN_POINTS - 1)
\* the seeds of the terrain's random source
Seeds == {1}
\* GetRandomValue(minHeight, maxHeight) for point i under a seed: a whole
\* number of pixels in [gameScreenHeight - 250, gameScreenHeight - 50]
GetRandomValue(seed, i) ==
  LET lo == gameScreenHeight - minTerrainHeight
      hi == gameScreenHeight - maxTerrainHeight
  IN (lo + ((seed * 67 + i * 113 * seed + i * i * 29) % (hi - lo + 1))) * 1000

InPadRegion(x, pad) ==
  /\ x >= pad - LandingPadHalfWidth - SegmentWidth
  /\ x <= pad + LandingPadHalfWidth + SegmentWidth

\* first loop: pad, taper and random heights
RawHeight(i, pad, seed) ==
  LET x == TerrainX(i)
  IN IF InPadRegion(x, pad)
     THEN IF x < pad - LandingPadHalfWidth
          THEN LET t == ((pad - LandingPadHalfWidth - x) * 1000) \div SegmentWidth
               IN LandingPadHeight - ((t * t * 10) \div 1000)
          ELSE IF x > pad + LandingPadHalfWidth
          THEN LET t == ((x - (pad + LandingPadHalfWidth)) * 1000) \div SegmentWidth
               IN LandingPadHeight - ((t * t * 10) \div 1000)
          ELSE LandingPadHeight
     ELSE GetRandomValue(seed, i)

RawPoints(pad, seed) ==
  Stored([i \in 0..(TERRAIN_POINTS - 1) |->
            [x |-> TerrainX(i), y |-> RawHeight(i, pad, seed)]])

\* variant: a pass that averages the points of the pad region too
SmoothPassEverywhere(keep, from, pad) ==
  Stored([i \in 0..(TERRAIN_POINTS - 1) |->
            IF i = 0 \/ i = TERRAIN_POINTS - 1
            THEN keep[i]
            ELSE [keep[i] EXCEPT
                    !.y = (from[i - 1].y + from[i].y + from[i + 1].y) \div 3]])

\* one 3-point averaging pass: the points of keep with the averages of from,
\* except at the two ends and in the pad region
SmoothPass(keep, from, pad) ==
  Stored([i \in 0..(TERRAIN_POINTS - 1) |->
            IF i = 0 \/ i = TERRAIN_POINTS - 1 \/ InPadRegion(TerrainX(i), pad)
            THEN keep[i]
            ELSE [keep[i] EXCEPT
                    !.y = (from[i - 1].y + from[i].y + from[i + 1].y) \div 3]])

\* the second pass writes terrainPoints from smoothedPoints
SecondPass(terrain, smoothedPoints, pad) == SmoothPass(terrain, smoothedPoints, pad)

\* the first pass writes smoothedPoints, a copy of terrainPoints
FirstPass(terrain, pad) ==
  The({ SecondPass(terrain, smoothedPoints, pad) :
           smoothedPoints \in {SmoothPass(terrain, terrain, pad)} })

Randomize(pad, seed) ==
  The({ FirstPass(terrain, pad) : terrain \in {RawPoints(pad, seed)} })


(***************************************************************************)
(* Lander                                                                  *)
(***************************************************************************)
\* the lander texture as LoadTexture left it: id 0, the file is not loaded
Textures ==
  { [id |-> 0, width |-> 0, height |-> 0] }
\* values the uniform distribution over [100, screenWidth - 100] can give:
\* one under the craft's start position, one away from it
PadXs ==
  { (gameScreenWidth \div 2) * 1000 + 8000, PadMargin + 100000 }

\* Lander::Reset; pad is the value drawn for landingPadX
LanderReset(l, screenWidth, pad) ==
  [l EXCEPT !.landerX = (screenWidth * 1000) \div 2,
            !.landerY = StartY,
            !.velocityX = 0,
            !.velocityY = 0,
            !.angle = 0,
            !.fuel = FullFuel,
            !.landed = FALSE,
            !.crashed = FALSE,
            !.crashPosX = 0,
            !.crashPosY = 0,
            !.height = LanderHeight,
            !.width = IF l.texture.id # 0
                      THEN (LanderHeight * l.texture.width) \div l.texture.height
                      ELSE FallbackWidth,
            !.landingPadX = pad,
            !.landingTime = 0]

\* Lander::Lander: the fields Reset does not set are given by the texture
NewLander(texture, screenWidth, pad) ==
  LanderReset([landerX |-> 0, landerY |-> 0, velocityX |-> 0, velocityY |-> 0,
               angle |-> 0, fuel |-> 0, landed |-> FALSE, crashed |-> FALSE,
               width |-> 0, height |-> 0, landingPadX |-> 0, landingTime |-> 0,
               crashPosX |-> 0, crashPosY |-> 0, texture |-> texture],
              screenWidth, pad)

\* collisionScale = 0.8f
Scaled(a) == (a * 4) \div 5
CenterX(l) == l.landerX + Scaled(l.width) \div 2

\* the interpolated terrain height of segment i at centerX
TerrainHeight(terrain, i, centerX) ==
  LET t == ((centerX - terrain[i].x) * 1000) \div (terrain[i + 1].x - terrain[i].x)
  IN (terrain[i].y * (1000 - t) + terrain[i + 1].y * t) \div 1000

NormalizedAngle(angle) == Fmod(angle + 180, 360) - 180

\* the landing test of the contact branch
LandingConditions(centerX, terrainHeight, vx, vy, pad, vlimit) ==
  /\ Abs(centerX - pad) <= LandingPadHalfWidth
  /\ Abs(terrainHeight - (gameScreenHeight - 50) * 1000) < 1000
  /\ Abs(vx) < vlimit
  /\ Abs(vy) < vlimit

AngleOk(angle) == Abs(NormalizedAngle(angle)) < AngleTolerance

\* c * impulse / 1000 for c, a sine or cosine in 1/1000, without leaving 32 bits
Component(c, impulse) ==
  c * (impulse \div 1000) + Quot(c * (impulse % 1000), 1000)

\* variant: the burn is subtracted without the floor at 0
ForcesUnclamped(l, g, fc, dt, thrusting, rotatingLeft, rotatingRight) ==
  LET vy1 == l.velocityY + g * dt
      isRotating == (rotatingLeft \/ rotatingRight) /\ l.fuel > 0
      doThrust == thrusting /\ l.fuel > 0
      vx2 == IF doThrust
             THEN l.velocityX + Component(Sin1000(l.angle), LanderThrust * dt)
             ELSE l.velocityX
      vy2 == IF doThrust
             THEN vy1 - Component(Cos1000(l.angle), LanderThrust * dt)
             ELSE vy1
      fuel2 == IF doThrust THEN l.fuel - fc * dt ELSE l.fuel
      a1 == IF isRotating /\ rotatingLeft
            THEN Fmod(l.angle + LanderRotationSpeed, 360) ELSE l.angle
      a2 == IF isRotating /\ rotatingRight
            THEN Fmod(a1 - LanderRotationSpeed, 360) ELSE a1
      fuel3 == IF isRotating THEN fuel2 - (fc * dt) \div 2 ELSE fuel2
  IN [l EXCEPT !.velocityX = vx2, !.velocityY = vy2, !.angle = a2, !.fuel = fuel3]

\* variant: thrust and rotation without the fuel test
ForcesOnEmpty(l, g, fc, dt, thrusting, rotatingLeft, rotatingRight) ==
  LET vy1 == l.velocityY + g * dt
      isRotating == rotatingLeft \/ rotatingRight
      doThrust == thrusting
      vx2 == IF doThrust
             THEN l.velocityX + Component(Sin1000(l.angle), LanderThrust * dt)
             ELSE l.velocityX
      vy2 == IF doThrust
             THEN vy1 - Component(Cos1000(l.angle), LanderThrust * dt)
             ELSE vy1
      fuel2 == IF doThrust THEN Max(0, l.fuel - fc * dt) ELSE l.fuel
      a1 == IF isRotating /\ rotatingLeft
            THEN Fmod(l.angle + LanderRotationSpeed, 360) ELSE l.angle
      a2 == IF isRotating /\ rotatingRight
            THEN Fmod(a1 - LanderRotationSpeed, 360) ELSE a1
      fuel3 == IF isRotating THEN Max(0, fuel2 - (fc * dt) \div 2) ELSE fuel2
  IN [l EXCEPT !.velocityX = vx2, !.velocityY = vy2, !.angle = a2, !.fuel = fuel3]

\* variant: no gravity
ForcesWeightless(l, g, fc, dt, thrusting, rotatingLeft, rotatingRight) ==
  LET isRotating == (rotatingLeft \/ rotatingRight) /\ l.fuel > 0
      doThrust == thrusting /\ l.fuel > 0
      vx2 == IF doThrust
             THEN l.velocityX + Component(Sin1000(l.angle), LanderThrust * dt)
             ELSE l.velocityX
      vy2 == IF doThrust
             THEN l.velocityY - Component(Cos1000(l.angle), LanderThrust * dt)
             ELSE l.velocityY
      fuel2 == IF doThrust THEN Max(0, l.fuel - fc * dt) ELSE l.fuel
      a1 == IF isRotating /\ rotatingLeft
            THEN Fmod(l.angle + LanderRotationSpeed, 360) ELSE l.angle
      a2 == IF isRotating /\ rotatingRight
            THEN Fmod(a1 - LanderRotationSpeed, 360) ELSE a1
      fuel3 == IF isRotating THEN Max(0, fuel2 - (fc * dt) \div 2) ELSE fuel2
  IN [l EXCEPT !.velocityX = vx2, !.velocityY = vy2, !.angle = a2, !.fuel = fuel3]

\* the forces of one tick: gravity, thrust, rotation, fuel
Forces(l, g, fc, dt, thrusting, rotatingLeft, rotatingRight) ==
  LET vy1 == l.velocityY + g * dt
      isRotating == (rotatingLeft \/ rotatingRight) /\ l.fuel > 0
      doThrust == thrusting /\ l.fuel > 0
      vx2 == IF doThrust
             THEN l.velocityX + Component(Sin1000(l.angle), LanderThrust * dt)
             ELSE l.velocityX
      vy2 == IF doThrust
             THEN vy1 - Component(Cos1000(l.angle), LanderThrust * dt)
             ELSE vy1
      fuel2 == IF doThrust THEN Max(0, l.fuel - fc * dt) ELSE l.fuel
      a1 == IF isRotating /\ rotatingLeft
            THEN Fmod(l.angle + LanderRotationSpeed, 360) ELSE l.angle
      a2 == IF isRotating /\ rotatingRight
            THEN Fmod(a1 - LanderRotationSpeed, 360) ELSE a1
      fuel3 == IF isRotating THEN Max(0, fuel2 - (fc * dt) \div 2) ELSE fuel2
  IN [l EXCEPT !.velocityX = vx2, !.velocityY = vy2, !.angle = a2, !.fuel = fuel3]

\* position integration and the screen clamps
Integrate(l) ==
  LET x1 == l.landerX + l.velocityX
      y1 == l.landerY + l.velocityY
      x2 == Max(0, Min(gameScreenWidth * 1000 - l.width, x1))
  IN IF y1 < 0
     THEN [l EXCEPT !.landerX = x2, !.landerY = 0, !.velocityY = 0]
     ELSE [l EXCEPT !.landerX = x2, !.landerY = y1]

\* the segments the loop stops at: centerX inside and the bottom edge at or
\* below the interpolated height
ContactSegments(l, terrain) ==
  { i \in 0..(TERRAIN_POINTS - 2) :
      /\ CenterX(l) >= terrain[i].x
      /\ CenterX(l) <= terrain[i + 1].x
      /\ l.landerY + Scaled(l.height) >= TerrainHeight(terrain, i, CenterX(l)) }

\* landerY after the snap onto the surface
SnapY(l, terrainHeight) ==
  terrainHeight - Scaled(l.height) - (l.height - Scaled(l.height)) \div 2

\* variant: a craft at the velocity limit or at the angle tolerance lands
ClassifyLenient(l, centerX, terrainHeight, vlimit, time) ==
  IF /\ LandingConditions(centerX, terrainHeight, l.velocityX, l.velocityY,
                          l.landingPadX, vlimit + 1)
     /\ Abs(NormalizedAngle(l.angle)) <= AngleTolerance
  THEN [l EXCEPT !.landed = TRUE, !.landingTime = time,
                 !.landerY = SnapY(l, terrainHeight)]
  ELSE [l EXCEPT !.crashed = TRUE, !.crashPosX = centerX,
                 !.crashPosY = l.landerY + Scaled(l.height) \div 2,
                 !.landerY = SnapY(l, terrainHeight)]

\* the contact branch, given the interpolated height; time is GetTime()
Classify(l, centerX, terrainHeight, vlimit, time) ==
  IF /\ LandingConditions(centerX, terrainHeight, l.velocityX, l.velocityY,
                          l.landingPadX, vlimit)
     /\ AngleOk(l.angle)
  THEN [l EXCEPT !.landed = TRUE, !.landingTime = time,
                 !.landerY = SnapY(l, terrainHeight)]
  ELSE [l EXCEPT !.crashed = TRUE, !.crashPosX = centerX,
                 !.crashPosY = l.landerY + Scaled(l.height) \div 2,
                 !.landerY = SnapY(l, terrainHeight)]

Resolve(l, terrain, i, vlimit, time) ==
  Classify(l, CenterX(l), TerrainHeight(terrain, i, CenterX(l)), vlimit, time)

\* the terrain loop: the first segment of hits, if any, decides
TerrainLoop(l, terrain, hits, vlimit, time) ==
  IF hits = {}
  THEN l
  ELSE Resolve(l, terrain, CHOOSE i \in hits : \A j \in hits : i <= j,
               vlimit, time)

Contact(l, terrain, vlimit, time) ==
  The({ TerrainLoop(l, terrain, hits, vlimit, time) :
           hits \in {ContactSegments(l, terrain)} })

\* variant: the tick runs on a landed or crashed craft too
LanderUpdateAlways(l, terrain, g, fc, vlimit, dt, thrusting, rotatingLeft, rotatingRight, time) ==
  The({ Contact(moved, terrain, vlimit, time) :
           moved \in {Integrate(Forces(l, g, fc, dt, thrusting,
                                        rotatingLeft, rotatingRight))} })

\* Lander::Update
LanderUpdate(l, terrain, g, fc, vlimit, dt, thrusting, rotatingLeft, rotatingRight, time) ==
  IF l.landed \/ l.crashed
  THEN l
  ELSE The({ Contact(moved, terrain, vlimit, time) :
                moved \in {Integrate(Forces(l, g, fc, dt, thrusting,
                                             rotatingLeft, rotatingRight))} })


(***************************************************************************)
(* Game                                                                    *)
(***************************************************************************)
VARIABLES
  isMobile,            \* Game::isMobile; the touch build is the web build
  firstTimeGameStart, isInExitMenu, paused, lostWindowFocus, gameOver, gameWon,
  exitWindowRequested, exitWindow,      \* globals
  lives, level,
  gravity, maxGravityReached, velocityLimit,   \* static members of Game
  fuelConsumption,                             \* Lander::fuelConsumption
  lander,              \* the Lander object
  terrainPoints,       \* Game::terrainPoints
  touchWasThrusting,   \* the function-static wasThrusting of the touch branch
  now,                 \* GetTime() at the last Update, see Clock
  signal,              \* what the last Update polled and which branches it took
  verdict,             \* what lander->Update reported in the last Update
  crashes,             \* history: the crashes since the run started
  tick                 \* the last call on the craft made on its own, see LanderSpec

vars ==
  << isMobile, firstTimeGameStart, isInExitMenu, paused, lostWindowFocus,
     gameOver, gameWon, exitWindowRequested, exitWindow, lives, level, gravity,
     maxGravityReached, velocityLimit, fuelConsumption, lander, terrainPoints,
     touchWasThrusting, now, signal, verdict, crashes, tick >>

\* no call on the craft made yet
NoTick ==
  [op |-> "none", n |-> 0, dt |-> 0, thrusting |-> FALSE,
   rotatingLeft |-> FALSE, rotatingRight |-> FALSE, bottom |-> 0]

\* the program state as one record, for the operators below
State ==
  [isMobile |-> isMobile, firstTimeGameStart |-> firstTimeGameStart,
   isInExitMenu |-> isInExitMenu, paused |-> paused,
   lostWindowFocus |-> lostWindowFocus, gameOver |-> gameOver,
   gameWon |-> gameWon, exitWindowRequested |-> exitWindowRequested,
   exitWindow |-> exitWindow, lives |-> lives, level |-> level,
   gravity |-> gravity, maxGravityReached |-> maxGravityReached,
   velocityLimit |-> velocityLimit, fuelConsumption |-> fuelConsumption,
   lander |-> lander, terrainPoints |-> terrainPoints,
   touchWasThrusting |-> touchWasThrusting,
   draws |-> 0, verdict |-> "Idle", centerAreaTapped |-> FALSE,
   ran |-> FALSE, accepted |-> FALSE,
   thrusting |-> FALSE, rotatingLeft |-> FALSE, rotatingRight |-> FALSE]

Flying(l) == ~l.landed /\ ~l.crashed

\* the random values one respawn draws: the pad X and the terrain's seed
Draws == [pad : PadXs, seed : Seeds]
NoDraw == [pad |-> CHOOSE p \in PadXs : TRUE, seed |-> 1]

\* the terrain Randomize() builds, for every draw
Terrains == Stored([r \in Draws |-> Randomize(r.pad, r.seed)])

\* Randomize() for lander l; SetTerrainReference(...)
Regenerate(s, l, seed) ==
  [s EXCEPT !.lander = l,
            !.terrainPoints = Terrains[[pad |-> l.landingPadX, seed |-> seed]],
            !.draws = s.draws + 1]

\* variant: the terrain is generated before the craft draws its new pad
RespawnTerrainFirst(s, r) ==
  [Regenerate(s, s.lander, r.seed) EXCEPT
     !.lander = LanderReset(s.lander, gameScreenWidth, r.pad)]

\* lander->Reset(width, height); Randomize(); SetTerrainReference(...)
Respawn(s, r) ==
  Regenerate(s, LanderReset(s.lander, gameScreenWidth, r.pad), r.seed)

\* variant: a reset that keeps the gravity ramp
GameResetKeepsRamp(s, r) ==
  [Respawn(s, r) EXCEPT !.lives = InitialLives,
                        !.level = InitialLevel,
                        !.velocityLimit = INITIAL_VELOCITY_LIMIT,
                        !.gameWon = FALSE,
                        !.fuelConsumption = initialFuelConsumption,
                        !.gameOver = FALSE]

\* Game::Reset
GameReset(s, r) ==
  [Respawn(s, r) EXCEPT !.lives = InitialLives,
                        !.level = InitialLevel,
                        !.gravity = INITIAL_GRAVITY,
                        !.maxGravityReached = FALSE,
                        !.velocityLimit = INITIAL_VELOCITY_LIMIT,
                        !.gameWon = FALSE,
                        !.fuelConsumption = initialFuelConsumption,
                        !.gameOver = FALSE]

\* IsKeyPressed(KEY_ENTER) || (isMobile && IsGestureDetected(GESTURE_TAP))
Continue(s, in) == in.enterPressed \/ (s.isMobile /\ in.tap)

\* Game::UpdateUI, statement by statement
StartKey(s, in) ==
  IF s.firstTimeGameStart /\ (IF s.isMobile THEN in.tap ELSE in.enterDown)
  THEN [s EXCEPT !.firstTimeGameStart = FALSE]
  ELSE s

ExitMenu(s, in) ==
  IF ~s.exitWindowRequested THEN s
  ELSE IF in.y THEN [s EXCEPT !.exitWindow = TRUE]
  ELSE IF in.n \/ in.esc
  THEN [s EXCEPT !.exitWindowRequested = FALSE, !.isInExitMenu = FALSE]
  ELSE s

WindowFocus(s, in) == [s EXCEPT !.lostWindowFocus = ~in.focused]

\* KEY_P, and KEY_ESCAPE too in the web build
PauseKey(s, in) ==
  IF /\ ~s.exitWindowRequested /\ ~s.lostWindowFocus /\ ~s.gameOver
     /\ (in.p \/ (s.isMobile /\ in.esc))
  THEN [s EXCEPT !.paused = ~s.paused]
  ELSE s

RestartAfterGameOver(s, in, r) ==
  IF s.gameOver /\ Continue(s, in) THEN GameReset(s, r) ELSE s

RestartAfterGameWon(s, in, r) ==
  IF s.gameWon /\ Continue(s, in) THEN GameReset(s, r) ELSE s

\* Game::UpdateUI, in its two builds (EMSCRIPTEN_BUILD is the touch build)
UpdateUI(s, in, r) ==
  IF ~s.isMobile /\ (in.close \/ (in.esc /\ ~s.exitWindowRequested))
  THEN [s EXCEPT !.exitWindowRequested = TRUE, !.isInExitMenu = TRUE]
  ELSE RestartAfterGameWon(
         RestartAfterGameOver(
           PauseKey(WindowFocus(ExitMenu(StartKey(s, in), in), in), in),
           in, r),
         in, r)

\* variant: the pause does not stop the simulation
RunningWhilePaused(s) ==
  /\ ~s.firstTimeGameStart /\ ~s.lostWindowFocus
  /\ ~s.isInExitMenu /\ ~s.gameOver

\* bool running
Running(s) ==
  /\ ~s.firstTimeGameStart /\ ~s.paused /\ ~s.lostWindowFocus
  /\ ~s.isInExitMenu /\ ~s.gameOver

\* the condition "running normally and not in a special state" of the touch loop
NormalPlay(s) == Running(s) /\ Flying(s.lander)

\* the loop over the touch points, from point k on; c collects the flags
RECURSIVE TouchLoop(_, _, _, _)
TouchLoop(s, in, k, c) ==
  IF k > Len(in.touches)
  THEN c
  ELSE LET touch == in.touches[k]
       IN IF touch = "left"
          THEN TouchLoop(s, in, k + 1, [c EXCEPT !.leftButtonPressed = TRUE])
          ELSE IF touch = "right"
          THEN TouchLoop(s, in, k + 1, [c EXCEPT !.rightButtonPressed = TRUE])
          ELSE IF touch = "centre"
          THEN TouchLoop(s, in, k + 1,
                 [c EXCEPT !.thrustButtonPressed = @ \/ NormalPlay(s),
                           !.centerAreaTapped = @ \/ in.tap])
          ELSE IF in.tap /\ ~c.paused
          THEN [c EXCEPT !.paused = NormalPlay(s)]
          ELSE TouchLoop(s, in, k + 1, c)

\* variant: an acknowledged crash costs two lives
CrashAcknowledgeTwice(s, r) ==
  [Respawn(s, r) EXCEPT !.lives = s.lives - 2]

\* variant: trying again costs no life
CrashAcknowledgeKeepsLives(s, r) ==
  Respawn(s, r)

\* the "try again after crashing" branch, shared in shape by both paths
CrashAcknowledge(s, r) ==
  [Respawn(s, r) EXCEPT !.lives = s.lives - 1]

\* "Handle special states with center area taps"
CenterTap(s, r) ==
  IF ~s.centerAreaTapped THEN s
  ELSE IF s.firstTimeGameStart THEN [s EXCEPT !.firstTimeGameStart = FALSE]
  ELSE IF s.gameOver \/ s.gameWon THEN GameReset(s, r)
  ELSE IF s.lander.crashed /\ ~s.gameOver
  THEN IF s.lives <= 1
       THEN [s EXCEPT !.gameOver = TRUE]
       ELSE CrashAcknowledge(s, r)
  ELSE s

\* the flags c of the touch loop applied; preserve keeps the thrust of the
\* frame before
TouchApply(s, in, c, r) ==
  CenterTap([s EXCEPT !.paused = c.paused,
                      !.touchWasThrusting =
                         c.thrustButtonPressed
                           \/ (s.touchWasThrusting /\ in.preserve),
                      !.centerAreaTapped = c.centerAreaTapped,
                      !.thrusting =
                         c.thrustButtonPressed
                           \/ (s.touchWasThrusting /\ in.preserve),
                      !.rotatingLeft = c.rightButtonPressed,
                      !.rotatingRight = c.leftButtonPressed],
            r)

\* the touch branch of Update up to lander->Update
TouchControls(s, in, r) ==
  TouchApply(s, in,
             TouchLoop(s, in, 1,
               [leftButtonPressed |-> FALSE, rightButtonPressed |-> FALSE,
                thrustButtonPressed |-> FALSE, centerAreaTapped |-> FALSE,
                paused |-> s.paused]),
             r)

\* the keyboard branch: the right key turns the craft left
KeyControls(s, in) ==
  [s EXCEPT !.thrusting = in.up, !.rotatingLeft = in.right,
            !.rotatingRight = in.left]

WinLevel(s) == IF s.isMobile THEN WinLevelMobile ELSE WinLevelDesktop

\* variant: the gravity step marks the cap as reached at once
RampGravityFlagged(s) ==
  IF s.gravity + gravityIncrease > MAX_GRAVITY
  THEN [s EXCEPT !.gravity = MAX_GRAVITY, !.maxGravityReached = TRUE]
  ELSE [s EXCEPT !.gravity = s.gravity + gravityIncrease,
                 !.maxGravityReached = TRUE]

\* the difficulty ramp of a level advance
RampGravity(s) ==
  IF s.gravity + gravityIncrease > MAX_GRAVITY
  THEN [s EXCEPT !.gravity = MAX_GRAVITY, !.maxGravityReached = TRUE]
  ELSE [s EXCEPT !.gravity = s.gravity + gravityIncrease]

\* variant: the fuel step without the maxGravityReached test
RampFuelUnguarded(s) ==
  [s EXCEPT !.fuelConsumption =
              IF s.fuelConsumption + fuelConsumptionIncrease > MAX_FUEL_CONSUMPTION
              THEN MAX_FUEL_CONSUMPTION
              ELSE s.fuelConsumption + fuelConsumptionIncrease]

RampFuel(s) ==
  IF s.maxGravityReached
  THEN [s EXCEPT !.fuelConsumption =
                   IF s.fuelConsumption + fuelConsumptionIncrease > MAX_FUEL_CONSUMPTION
                   THEN MAX_FUEL_CONSUMPTION
                   ELSE s.fuelConsumption + fuelConsumptionIncrease]
  ELSE s

\* variant: an advance skips a level
NextLevelSkips(s) == [s EXCEPT !.level = s.level + 2]

NextLevel(s) == [s EXCEPT !.level = s.level + 1]

\* variant: the level is incremented first and the incremented level tested
LevelAdvanceIncrementFirst(s, r) ==
  IF s.level + 1 >= WinLevel(s)
  THEN [s EXCEPT !.level = s.level + 1, !.gameWon = TRUE]
  ELSE Respawn(NextLevel(RampFuel(RampGravity(s))), r)

\* variant: the win is declared one level early
LevelAdvanceEarlyWin(s, r) ==
  IF s.level + 1 >= WinLevel(s)
  THEN [s EXCEPT !.gameWon = TRUE]
  ELSE Respawn(NextLevel(RampFuel(RampGravity(s))), r)

\* variant: a level advance that refills the lives
LevelAdvanceRefillsLives(s, r) ==
  IF s.level >= WinLevel(s)
  THEN [s EXCEPT !.gameWon = TRUE]
  ELSE [Respawn(NextLevel(RampFuel(RampGravity(s))), r) EXCEPT
          !.lives = InitialLives]

\* the accepted continue of a landed craft
LevelAdvance(s, r) ==
  IF s.level >= WinLevel(s)
  THEN [s EXCEPT !.gameWon = TRUE]
  ELSE Respawn(NextLevel(RampFuel(RampGravity(s))), r)

\* variant: the last crash waits for the continue signal too
CrashBranchWaits(s, in, r) ==
  IF ~Continue(s, in) THEN s
  ELSE IF s.lives <= 1 THEN [s EXCEPT !.gameOver = TRUE]
  ELSE CrashAcknowledge(s, r)

\* variant: the run ends while a life is left
CrashBranchEarly(s, in, r) ==
  IF s.lives <= InitialLives - 1
  THEN [s EXCEPT !.gameOver = TRUE]
  ELSE IF Continue(s, in) THEN CrashAcknowledge(s, r) ELSE s

\* the crash branch after lander->Update
CrashBranch(s, in, r) ==
  IF s.lives <= 1
  THEN [s EXCEPT !.gameOver = TRUE]
  ELSE IF Continue(s, in) THEN CrashAcknowledge(s, r) ELSE s

\* GetTime() - lander->GetLandingTime() > inputDelay, for a landed craft
Waited(l, time) == l.landed /\ time - l.landingTime > inputDelay

\* variant: the continue of a landed craft is taken without the input delay
AfterLanderUpdateNoDelay(s, in, r, time) ==
  IF s.lander.crashed THEN CrashBranch(s, in, r)
  ELSE IF s.lander.landed /\ Continue(s, in)
  THEN LevelAdvance([s EXCEPT !.accepted = TRUE], r)
  ELSE s

\* what follows lander->Update; time is GetTime()
AfterLanderUpdate(s, in, r, time) ==
  IF s.lander.crashed THEN CrashBranch(s, in, r)
  ELSE IF /\ s.lander.landed
          /\ time - s.lander.landingTime > inputDelay
          /\ Continue(s, in)
  THEN LevelAdvance([s EXCEPT !.accepted = TRUE], r)
  ELSE s

Verdict(before, after) ==
  IF ~Flying(before) THEN "Idle"
  ELSE IF after.landed THEN "Landed"
  ELSE IF after.crashed THEN "Crashed"
  ELSE "None"

\* lander->Update(dt, thrusting, rotatingLeft, rotatingRight)
Step(s, dt, time) ==
  LanderUpdate(s.lander, s.terrainPoints, s.gravity, s.fuelConsumption,
               s.velocityLimit, dt, s.thrusting, s.rotatingLeft,
               s.rotatingRight, time)

StepResult(s, l) == [s EXCEPT !.lander = l, !.verdict = Verdict(s.lander, l)]

\* the body of "if (running)", the controls read
Simulate(s, in, dt, r, time) ==
  The({ AfterLanderUpdate(StepResult(s, l), in, r, time) :
           l \in {Step(s, dt, time)} })

\* Game::Update from after UpdateUI on
AfterUpdateUI(s, in, dt, r1, r2, time) ==
  IF s.isMobile /\ s.paused /\ in.tap
  THEN [s EXCEPT !.paused = FALSE]
  ELSE IF ~Running(s) THEN s
  ELSE The({ Simulate([c EXCEPT !.ran = TRUE], in, dt, r2, time) :
                c \in {IF s.isMobile
                        THEN TouchControls(s, in, r1)
                        ELSE KeyControls(s, in)} })

\* Game::Update for dt # 0; r1 and r2 are the draws of the respawns before
\* and after lander->Update
GameUpdate(s, in, dt, r1, r2, time) ==
  The({ AfterUpdateUI(s1, in, dt, r1, r2, time) : s1 \in {UpdateUI(s, in, r1)} })

\* Game::Update: "if (dt == 0) return;", then the rest
GameUpdateDt(s, in, dt, r1, r2, time) ==
  IF dt = 0 THEN s ELSE GameUpdate(s, in, dt, r1, r2, time)


(***************************************************************************)
(* The environment: polled input, frame times, the clock                   *)
(***************************************************************************)
NoInput ==
  [up |-> FALSE, right |-> FALSE, left |-> FALSE, enterPressed |-> FALSE,
   enterDown |-> FALSE, p |-> FALSE, esc |-> FALSE, y |-> FALSE, n |-> FALSE,
   close |-> FALSE, focused |-> TRUE, touches |-> << >>, tap |-> FALSE,
   preserve |-> FALSE]

\* the player steers in one frame of a flight, the first that burns fuel
Steering(l) == Flying(l) /\ l.fuel = FullFuel

\* the flight keys: none, each one, all three
FlightKeys ==
  { NoInput, [NoInput EXCEPT !.up = TRUE], [NoInput EXCEPT !.right = TRUE],
    [NoInput EXCEPT !.left = TRUE],
    [NoInput EXCEPT !.up = TRUE, !.right = TRUE, !.left = TRUE] }

\* one menu key or window event on top of base
MenuKeys(base) ==
  { [base EXCEPT !.enterPressed = TRUE, !.enterDown = TRUE],
    [base EXCEPT !.enterDown = TRUE],
    [base EXCEPT !.p = TRUE], [base EXCEPT !.esc = TRUE],
    [base EXCEPT !.y = TRUE], [base EXCEPT !.n = TRUE],
    [base EXCEPT !.close = TRUE], [base EXCEPT !.focused = FALSE] }

\* the keyboard and window state one Update can poll
KeyInputs ==
  (IF Steering(lander) THEN FlightKeys ELSE {NoInput})
    \cup MenuKeys(NoInput)
    \cup { [NoInput EXCEPT !.enterPressed = TRUE, !.enterDown = TRUE,
                           !.up = TRUE, !.left = TRUE],
           [NoInput EXCEPT !.enterPressed = TRUE, !.enterDown = TRUE,
                           !.up = TRUE, !.left = TRUE, !.focused = FALSE] }

\* where a touch point lies: in a rotate button, below the title bar, in it
TouchKinds == {"left", "right", "centre", "title"}
TouchSeqs ==
  { t \in UNION { [1..n -> TouchKinds] : n \in 0..MaxTouches } :
      \/ ~Flying(lander)
      \/ Steering(lander)
      \/ \A k \in 1..Len(t) : t[k] = "title" }

\* the touch state one Update can poll, dt after the Update before;
\* preserve: currentTime - lastThrustTime < thrustTimeout
TouchInputs(dt) ==
  { [NoInput EXCEPT !.touches = t, !.tap = g, !.preserve = (dt < thrustTimeout)] :
      t \in TouchSeqs, g \in BOOLEAN }
    \cup { [NoInput EXCEPT !.p = TRUE], [NoInput EXCEPT !.esc = TRUE],
           [NoInput EXCEPT !.focused = FALSE],
           [NoInput EXCEPT !.focused = FALSE, !.touches = << "centre" >>,
                           !.tap = TRUE],
           [NoInput EXCEPT !.enterPressed = TRUE, !.enterDown = TRUE] }

\* pause, escape, close and focus events
Quiet(in) == ~in.p /\ ~in.esc /\ ~in.close /\ in.focused

\* the inputs of one Update; past level MenuLevels the player plays on
\* without pausing or leaving
Inputs(dt) ==
  { in \in (IF isMobile THEN TouchInputs(dt) ELSE KeyInputs) :
      level <= MenuLevels \/ Quiet(in) }

\* what the devices hold in a frame of no length: nothing, or the continue
\* signal with thrust and a rotation
ZeroInputs ==
  { NoInput,
    IF isMobile
    THEN [NoInput EXCEPT !.touches = << "centre" >>, !.tap = TRUE]
    ELSE [NoInput EXCEPT !.enterPressed = TRUE, !.enterDown = TRUE,
                         !.up = TRUE, !.left = TRUE] }

\* the bottom edge of the collision box touches the pad at this landerY
ContactY == LandingPadHeight - Scaled(LanderHeight)
\* a long frame in which a craft released at StartY falls to just above the pad
FallFrame(g) == ((ContactY - 600 - StartY) + g - 1) \div g
\* a long frame of thrust that brakes that fall to below the velocity limit
BrakeFrame(g) ==
  LET vy == g * FallFrame(g)
  IN (vy - (ContactY - (StartY + vy))) \div (LanderThrust - g)

\* the frame times GetFrameTime() is taken from: while the craft flies the
\* long ones, which keep a flight to a few ticks, else the short one; the
\* landed craft waits in shortest frames too, which step through the input
\* delay
Frames ==
  IF Flying(lander)
  THEN {FallFrame(gravity), BrakeFrame(gravity)}
  ELSE IF lander.landed
  THEN {DtTick, DtShort}
  ELSE {DtShort}

\* GetTime() is read at the landing and in the input-delay test only: the
\* clock restarts while the craft is not landed and stops once the delay
\* has passed
Clock(l, time) ==
  IF l.landed THEN Min(time, l.landingTime + inputDelay + 1) ELSE 0

(***************************************************************************)
(* The specification                                                       *)
(***************************************************************************)
\* Game::Game, Game::InitGame and the second Randomize of main
Init ==
  /\ isMobile \in BOOLEAN
  /\ firstTimeGameStart = TRUE
  /\ isInExitMenu = FALSE
  /\ paused = FALSE
  /\ lostWindowFocus = FALSE
  /\ gameOver = FALSE
  /\ gameWon = FALSE
  /\ exitWindowRequested = FALSE
  /\ exitWindow = FALSE
  /\ lives = InitialLives
  /\ level = InitialLevel
  /\ gravity = INITIAL_GRAVITY
  /\ maxGravityReached = FALSE
  /\ velocityLimit = INITIAL_VELOCITY_LIMIT
  /\ fuelConsumption = initialFuelConsumption
  /\ \E texture \in Textures, r \in Draws :
       /\ lander = NewLander(texture, gameScreenWidth, r.pad)
       /\ terrainPoints = Terrains[r]
  /\ touchWasThrusting = FALSE
  /\ now = 0
  /\ signal = [continue |-> FALSE, centreTap |-> FALSE, ran |-> FALSE,
               accepted |-> FALSE, regenerated |-> FALSE, waited |-> FALSE,
               elapsed |-> FALSE]
  /\ verdict = "Idle"
  /\ crashes = 0
  /\ tick = NoTick

\* mainLoop: one Game::Update with dt > 0 (Draw changes nothing modelled)
Update ==
  /\ ~exitWindow
  /\ \E dt \in Frames, s0 \in {State} : \E in \in Inputs(dt) :
       \E s1 \in {GameUpdateDt(s0, in, dt, NoDraw, NoDraw, now + dt)} :
            \E s \in (IF s1.draws = 0
                      THEN {s1}
                      ELSE IF s1.draws = 1
                      THEN { GameUpdateDt(s0, in, dt, r, r, now + dt) : r \in Draws }
                      ELSE { GameUpdateDt(s0, in, dt, r1, r2, now + dt) :
                               r1 \in Draws, r2 \in Draws }) :
               /\ isMobile' = s.isMobile
               /\ firstTimeGameStart' = s.firstTimeGameStart
               /\ isInExitMenu' = s.isInExitMenu
               /\ paused' = s.paused
               /\ lostWindowFocus' = s.lostWindowFocus
               /\ gameOver' = s.gameOver
               /\ gameWon' = s.gameWon
               /\ exitWindowRequested' = s.exitWindowRequested
               /\ exitWindow' = s.exitWindow
               /\ lives' = s.lives
               /\ level' = s.level
               /\ gravity' = s.gravity
               /\ maxGravityReached' = s.maxGravityReached
               /\ velocityLimit' = s.velocityLimit
               /\ fuelConsumption' = s.fuelConsumption
               /\ lander' = s.lander
               /\ terrainPoints' = s.terrainPoints
               /\ touchWasThrusting' = s.touchWasThrusting
               /\ now' = Clock(s.lander, now + dt)
               /\ signal' = [continue |-> Continue(s0, in),
                             centreTap |-> s.centerAreaTapped,
                             ran |-> s.ran,
                             accepted |-> s.accepted,
                             regenerated |-> s.draws > 0,
                             waited |-> Waited(lander, now + dt),
                             elapsed |-> TRUE]
               /\ verdict' = s.verdict
               /\ crashes' = IF (s0.gameOver \/ s0.gameWon) /\ Continue(s0, in)
                             THEN 0
                             ELSE IF s.verdict = "Crashed" THEN crashes + 1
                             ELSE crashes
               /\ tick' = tick

\* mainLoop: one Game::Update with dt = 0, whatever the input devices hold;
\* frames of no length are tried up to level MenuLevels
UpdateZero ==
  /\ ~exitWindow
  /\ level <= MenuLevels
  /\ \E in \in ZeroInputs :
       \E s \in {GameUpdateDt(State, in, 0, NoDraw, NoDraw, now)} :
          /\ isMobile' = s.isMobile
          /\ firstTimeGameStart' = s.firstTimeGameStart
          /\ isInExitMenu' = s.isInExitMenu
          /\ paused' = s.paused
          /\ lostWindowFocus' = s.lostWindowFocus
          /\ gameOver' = s.gameOver
          /\ gameWon' = s.gameWon
          /\ exitWindowRequested' = s.exitWindowRequested
          /\ exitWindow' = s.exitWindow
          /\ lives' = s.lives
          /\ level' = s.level
          /\ gravity' = s.gravity
          /\ maxGravityReached' = s.maxGravityReached
          /\ velocityLimit' = s.velocityLimit
          /\ fuelConsumption' = s.fuelConsumption
          /\ lander' = s.lander
          /\ terrainPoints' = s.terrainPoints
          /\ touchWasThrusting' = s.touchWasThrusting
          /\ signal' = [continue |-> FALSE, centreTap |-> s.centerAreaTapped,
                        ran |-> s.ran, accepted |-> s.accepted,
                        regenerated |-> s.draws > 0, waited |-> FALSE,
                        elapsed |-> FALSE]
          /\ verdict' = s.verdict
  /\ UNCHANGED << now, crashes, tick >>

Next == Update \/ UpdateZero

Spec == Init /\ [][Next]_vars

(***************************************************************************)
(* The craft on its own: Lander::Update called with every input on crafts  *)
(* in flight, and the respawn of Game                                      *)
(***************************************************************************)
\* fuel left near exhaustion: multiples of the burn of half a shortest frame
LowFuels ==
  { 0, (initialFuelConsumption * DtTick) \div 2, initialFuelConsumption * DtTick,
    (3 * initialFuelConsumption * DtTick) \div 2 }
\* stored angles: upright, at and inside the tolerance on both sides, half a
\* turn, and nearly a full turn either way
Angles ==
  { 0, AngleTolerance - 1, AngleTolerance, -AngleTolerance, 180, -180,
    360 - (AngleTolerance - 1), -(360 - (AngleTolerance - 1)) }
\* the centre of the collision box over the pad: its centre, its left edge,
\* and one unit off the left edge
Centres(pad) ==
  { pad, pad - LandingPadHalfWidth, pad - LandingPadHalfWidth - 1 }
\* the bottom edge of a descending craft is this far above the pad
Gap == 500
\* descent rates: gravity of a shortest frame closes none of, exactly, and
\* more than the gap; the last reaches the velocity limit
Descents ==
  { 0, Gap - INITIAL_GRAVITY * DtTick,
    INITIAL_VELOCITY_LIMIT - INITIAL_GRAVITY * DtTick }
Drifts == { 0, INITIAL_VELOCITY_LIMIT }

\* crafts high above the terrain, as Lander::Reset places them: upright with
\* the fuel nearly or fully burnt, or turned with half the fuel left
Aloft(base) ==
  { [base EXCEPT !.fuel = f] : f \in LowFuels }
    \cup { [base EXCEPT !.fuel = FullFuel \div 2, !.angle = a] : a \in Angles }

\* a craft about to touch down
Approach(base, cx, vx, vy, a) ==
  [base EXCEPT !.landerX = cx - Scaled(base.width) \div 2,
               !.landerY = ContactY - Gap,
               !.velocityX = vx, !.velocityY = vy, !.angle = a,
               !.fuel = FullFuel \div 2]

\* crafts about to touch down on or beside the pad: the approach of a clean
\* landing (over the pad's centre, no drift, upright, closing the gap) with
\* its centre, its drift, its descent rate or its angle varied
Descending(base) ==
  LET pad == base.landingPadX
      vy0 == Gap - INITIAL_GRAVITY * DtTick
  IN { Approach(base, cx, 0, vy0, 0) : cx \in Centres(pad) }
       \cup { Approach(base, pad, vx, vy0, 0) : vx \in Drifts }
       \cup { Approach(base, pad, 0, vy, 0) : vy \in Descents }
       \cup { Approach(base, pad, 0, vy0, a) : a \in Angles }

\* the crafts in flight a sequence of calls starts from
Crafts(base) == Aloft(base) \cup Descending(base)

\* collisionBottom of a craft
CollisionBottom(l) == l.landerY + Scaled(l.height)

\* a running session at the first level with the craft in flight
LanderInit ==
  /\ isMobile = FALSE
  /\ firstTimeGameStart = FALSE
  /\ isInExitMenu = FALSE
  /\ paused = FALSE
  /\ lostWindowFocus = FALSE
  /\ gameOver = FALSE
  /\ gameWon = FALSE
  /\ exitWindowRequested = FALSE
  /\ exitWindow = FALSE
  /\ lives = InitialLives
  /\ level = InitialLevel
  /\ gravity = INITIAL_GRAVITY
  /\ maxGravityReached = FALSE
  /\ velocityLimit = INITIAL_VELOCITY_LIMIT
  /\ fuelConsumption = initialFuelConsumption
  /\ \E texture \in Textures, r \in Draws :
       /\ lander \in Crafts(NewLander(texture, gameScreenWidth, r.pad))
       /\ terrainPoints = Terrains[r]
  /\ touchWasThrusting = FALSE
  /\ now = 0
  /\ signal = [continue |-> FALSE, centreTap |-> FALSE, ran |-> TRUE,
               accepted |-> FALSE, regenerated |-> FALSE, waited |-> FALSE,
               elapsed |-> TRUE]
  /\ verdict = "Idle"
  /\ crashes = 0
  /\ tick = NoTick

\* what a call on the craft leaves alone
GameUnchanged ==
  UNCHANGED << isMobile, firstTimeGameStart, isInExitMenu, paused,
               lostWindowFocus, gameOver, gameWon, exitWindowRequested,
               exitWindow, lives, level, gravity, maxGravityReached,
               velocityLimit, fuelConsumption, touchWasThrusting, signal,
               crashes >>

\* lander->Update(dt, thrusting, rotatingLeft, rotatingRight), at most
\* MaxTicks times in a row
LanderStep ==
  /\ tick.n < MaxTicks
  /\ \E dt \in {DtTick, DtShort}, thrusting \in BOOLEAN,
        rotatingLeft \in BOOLEAN, rotatingRight \in BOOLEAN :
       /\ lander' = LanderUpdate(lander, terrainPoints, gravity,
                                 fuelConsumption, velocityLimit, dt, thrusting,
                                 rotatingLeft, rotatingRight, now + dt)
       /\ tick' = [op |-> "Update", n |-> tick.n + 1, dt |-> dt,
                   thrusting |-> thrusting, rotatingLeft |-> rotatingLeft,
                   rotatingRight |-> rotatingRight,
                   bottom |-> IF Flying(lander)
                              THEN CollisionBottom(
                                     Integrate(Forces(lander, gravity,
                                       fuelConsumption, dt, thrusting,
                                       rotatingLeft, rotatingRight)))
                              ELSE CollisionBottom(lander)]
       /\ verdict' = Verdict(lander, lander')
       /\ now' = Clock(lander', now + dt)
  /\ UNCHANGED terrainPoints
  /\ GameUnchanged

\* lander->Reset(width, height); Randomize(); SetTerrainReference(...)
LanderRespawn ==
  /\ \E r \in Draws :
       /\ lander' = LanderReset(lander, gameScreenWidth, r.pad)
       /\ terrainPoints' = Terrains[r]
  /\ tick' = [NoTick EXCEPT !.op = "Reset"]
  /\ verdict' = "Idle"
  /\ now' = 0
  /\ GameUnchanged

LanderNext == LanderStep \/ LanderRespawn

LanderSpec == LanderInit /\ [][LanderNext]_vars

(***************************************************************************)
(* The terrain generator on its own: Randomize for pads across the range   *)
(* Lander::Reset draws from                                                *)
(***************************************************************************)
\* the distance between two pad positions tried; no multiple of the spacing
\* of the terrain points, so the pad meets the points in every phase
PadStep == 8237
\* values of dis(gen), uniform over [100, screenWidth - 100)
WidePads ==
  { PadMargin + ((k * PadStep) % (gameScreenWidth * 1000 - 2 * PadMargin)) :
      k \in 0..NumPads }
WideDraws == [pad : WidePads, seed : 1..NumSeeds]
WideTerrains == Stored([r \in WideDraws |-> Randomize(r.pad, r.seed)])

\* a running session whose craft and terrain were set up for some pad
TerrainInit ==
  /\ isMobile = FALSE
  /\ firstTimeGameStart = FALSE
  /\ isInExitMenu = FALSE
  /\ paused = FALSE
  /\ lostWindowFocus = FALSE
  /\ gameOver = FALSE
  /\ gameWon = FALSE
  /\ exitWindowRequested = FALSE
  /\ exitWindow = FALSE
  /\ lives = InitialLives
  /\ level = InitialLevel
  /\ gravity = INITIAL_GRAVITY
  /\ maxGravityReached = FALSE
  /\ velocityLimit = INITIAL_VELOCITY_LIMIT
  /\ fuelConsumption = initialFuelConsumption
  /\ \E texture \in Textures, r \in WideDraws :
       /\ lander = NewLander(texture, gameScreenWidth, r.pad)
       /\ terrainPoints = WideTerrains[r]
  /\ touchWasThrusting = FALSE
  /\ now = 0
  /\ signal = [continue |-> FALSE, centreTap |-> FALSE, ran |-> TRUE,
               accepted |-> FALSE, regenerated |-> FALSE, waited |-> FALSE,
               elapsed |-> TRUE]
  /\ verdict = "Idle"
  /\ crashes = 0
  /\ tick = NoTick

\* lander->Reset(width, height); Randomize(); SetTerrainReference(...)
TerrainRespawn ==
  /\ \E r \in WideDraws :
       /\ lander' = LanderReset(lander, gameScreenWidth, r.pad)
       /\ terrainPoints' = WideTerrains[r]
  /\ UNCHANGED << tick, verdict, now >>
  /\ GameUnchanged

TerrainNext == TerrainRespawn

TerrainSpec == TerrainInit /\ [][TerrainNext]_vars

(***************************************************************************)
(* A flight followed to its end: Lander::Update called on a fresh craft    *)
(* for as long as the session runs                                         *)
(***************************************************************************)
\* gravity and fuel-burn rate of the first level and of the levels past the
\* ramp
Difficulties ==
  { [gravity |-> INITIAL_GRAVITY, fuelConsumption |-> initialFuelConsumption],
    [gravity |-> MAX_GRAVITY, fuelConsumption |-> MAX_FUEL_CONSUMPTION] }

\* frame lengths (dt > 0): the multiples of the frame in which thrust burns
\* half a tank
FlightDts(fc) == { ((FullFuel \div 2) \div fc) * k : k \in 1..FlightFrames }

\* a running session at either difficulty with the craft as Lander::Reset
\* leaves it; tick.dt is the frame length of the flight, the frame rate
\* being steady
FlightInit ==
  /\ isMobile = FALSE
  /\ firstTimeGameStart = FALSE
  /\ isInExitMenu = FALSE
  /\ paused = FALSE
  /\ lostWindowFocus = FALSE
  /\ gameOver = FALSE
  /\ gameWon = FALSE
  /\ exitWindowRequested = FALSE
  /\ exitWindow = FALSE
  /\ lives = InitialLives
  /\ \E d \in Difficulties :
       /\ gravity = d.gravity
       /\ fuelConsumption = d.fuelConsumption
       /\ maxGravityReached = (d.gravity = MAX_GRAVITY)
       /\ level = IF d.gravity = MAX_GRAVITY THEN WinLevelMobile ELSE InitialLevel
       /\ \E dt \in FlightDts(d.fuelConsumption) :
            tick = [NoTick EXCEPT !.dt = dt]
  /\ velocityLimit = INITIAL_VELOCITY_LIMIT
  /\ \E texture \in Textures, r \in Draws :
       /\ lander = NewLander(texture, gameScreenWidth, r.pad)
       /\ terrainPoints = Terrains[r]
  /\ touchWasThrusting = FALSE
  /\ now = 0
  /\ signal = [continue |-> FALSE, centreTap |-> FALSE, ran |-> TRUE,
               accepted |-> FALSE, regenerated |-> FALSE, waited |-> FALSE,
               elapsed |-> TRUE]
  /\ verdict = "Idle"
  /\ crashes = 0

\* lander->Update(dt, thrusting, rotatingLeft, rotatingRight) with dt > 0 on
\* the craft in flight, whatever the inputs
FlightStep ==
  /\ Flying(lander)
  /\ \E dt \in {tick.dt}, thrusting \in BOOLEAN,
        rotatingLeft \in BOOLEAN, rotatingRight \in BOOLEAN :
       /\ lander' = LanderUpdate(lander, terrainPoints, gravity,
                                 fuelConsumption, velocityLimit, dt, thrusting,
                                 rotatingLeft, rotatingRight, now + dt)
       /\ verdict' = Verdict(lander, lander')
       /\ now' = Clock(lander', now + dt)
  /\ UNCHANGED << terrainPoints, tick >>
  /\ GameUnchanged

FlightNext == FlightStep

\* mainLoop calls Game::Update every frame, and a running session calls
\* lander->Update in each
FlightSpec == FlightInit /\ [][FlightNext]_vars /\ WF_vars(FlightStep)

(***************************************************************************)
(* The claims                                                              *)
(***************************************************************************)
\* Game::Reset ran in this Update: UpdateUI saw gameOver or gameWon together
\* with the continue signal
FullReset == (gameOver \/ gameWon) /\ signal'.continue

\* an accepted continue of a landed craft that did not end in GameWon
Advance == signal'.accepted /\ ~gameWon'

\* the craft as Lander::Reset leaves it, on the pad drawn in this Update
FreshCraft == LanderReset(lander, gameScreenWidth, lander'.landingPadX)

\* l1 is l0 after one lander->Update of this Update
SteppedOnce(l0, l1) ==
  \E dt \in Frames, th \in BOOLEAN, rl \in BOOLEAN, rr \in BOOLEAN :
     l1 = LanderUpdate(l0, terrainPoints', gravity', fuelConsumption',
                       velocityLimit', dt, th, rl, rr, now + dt)

\* the terrain is the one Randomize builds for the craft's pad
TerrainRegenerated ==
  /\ signal'.regenerated
  /\ \E r \in Draws : r.pad = lander'.landingPadX /\ terrainPoints' = Terrains[r]

\* C1 (as claimed): within a run neither gravity nor the fuel-burn rate is
\* ever lowered; only the full reset lowers them.
C1_NeverLowered ==
  [][FullReset \/ (gravity' >= gravity /\ fuelConsumption' >= fuelConsumption)]_vars

\* C2: in every reachable state with gravity strictly below MAX_GRAVITY the
\* fuel-burn rate equals initialFuelConsumption.
C2_FuelWaitsForGravity ==
  gravity < MAX_GRAVITY => fuelConsumption = initialFuelConsumption

\* C2 witness: the last level before the cap, six advances into the ramp
C2_Witness ==
  /\ gravity > INITIAL_GRAVITY
  /\ gravity < MAX_GRAVITY
  /\ gravity + gravityIncrease > MAX_GRAVITY
  /\ fuelConsumption = initialFuelConsumption

\* C3 (as claimed): no level advance changes both gravity and the fuel-burn
\* rate.
C3_OneRampPerAdvance ==
  [][Advance => (gravity' = gravity \/ fuelConsumption' = fuelConsumption)]_vars

\* C3 (amended): a level advance changes both gravity and the fuel-burn rate
\* only when it is the advance that clamps gravity to MAX_GRAVITY; every other
\* advance changes at most one of them.
C3_BothOnlyWhenSaturating ==
  [][Advance /\ gravity' # gravity /\ fuelConsumption' # fuelConsumption
       => /\ gravity < MAX_GRAVITY
          /\ gravity' = MAX_GRAVITY
          /\ ~maxGravityReached /\ maxGravityReached']_vars

\* C3 witness: the state after the advance on which gravity saturated, the
\* fuel-burn rate changed with it
C3_Witness ==
  /\ signal.accepted
  /\ gravity = MAX_GRAVITY
  /\ fuelConsumption # initialFuelConsumption
  /\ INITIAL_GRAVITY + (level - 2) * gravityIncrease < MAX_GRAVITY

\* C4 (as claimed): in every reachable state, the initial one included,
\* gravity is at most MAX_GRAVITY and the fuel-burn rate at most
\* MAX_FUEL_CONSUMPTION.
C4_Capped ==
  gravity <= MAX_GRAVITY /\ fuelConsumption <= MAX_FUEL_CONSUMPTION

\* C5 (as claimed): an accepted continue of a landed craft increments level;
\* if the incremented level reaches the win threshold the session is in
\* GameWon, else the craft flies at the new level.
C5_IncrementThenTest ==
  [][signal'.accepted
       => /\ level' = level + 1
          /\ IF level + 1 >= WinLevel(State)
             THEN gameWon'
             ELSE ~gameWon' /\ Flying(lander')]_vars

\* C5 (amended): an accepted continue of a landed craft tests the level
\* before incrementing it: with level at the win threshold the session enters
\* GameWon, level unchanged and the craft still landed; below the threshold
\* level is incremented by 1 and the craft flies, GameWon not entered.
C5_TestThenIncrement ==
  [][signal'.accepted
       => /\ lander.landed /\ ~gameWon /\ ~gameOver
          /\ IF level >= WinLevel(State)
             THEN gameWon' /\ level' = level /\ lander' = lander
             ELSE ~gameWon' /\ level' = level + 1 /\ Flying(lander')]_vars

\* C5 witness: GameWon entered by an accepted continue at the threshold level
C5_Witness ==
  signal.accepted /\ gameWon /\ level = WinLevel(State) /\ lander.landed

\* C6: on the tick the craft crashes, with one life left the session is in
\* GameOver after that same Update, continue signal or not; with more lives
\* left, and on every later tick of the crashed craft, lives is unchanged and
\* the craft stays crashed as long as no continue signal arrives.
C6_CrashTick ==
  [][/\ verdict' = "Crashed" /\ lives <= 1
          => gameOver' /\ lives' = lives /\ lander'.crashed
     /\ (verdict' = "Crashed" \/ lander.crashed) /\ lives > 1 /\ ~signal'.continue
          => ~gameOver' /\ lives' = lives /\ lander'.crashed]_vars

\* C6 witness: GameOver entered on the crash tick with no continue signal
C6_Witness ==
  verdict = "Crashed" /\ gameOver /\ ~signal.continue /\ lander.crashed

\* a continue signal that reaches the crash handling of a running session
CrashContinue ==
  /\ lander.crashed /\ ~gameOver /\ lives > 1
  /\ signal'.continue /\ signal'.ran

\* what every acknowledged crash does
CrashRespawn ==
  /\ lives' = lives - 1
  /\ TerrainRegenerated
  /\ Flying(lander')
  /\ level' = level /\ gravity' = gravity
  /\ fuelConsumption' = fuelConsumption /\ velocityLimit' = velocityLimit
  /\ ~gameOver' /\ ~gameWon'

C8_GameOverAtZero == gameOver => lives = 0

\* C8 (amended): the crash with one life left ends the run without
\* decrementing lives: in every GameOver state lives is 1, and lives is
\* never 0.
C8_GameOverAtOne == (gameOver => lives = 1) /\ lives >= 1

\* C8 witness: a GameOver state
C8_Witness == gameOver /\ lander.crashed /\ lives = 1

\* what Game::Reset sets
ResetValues ==
  /\ lives' = InitialLives /\ level' = InitialLevel
  /\ gravity' = INITIAL_GRAVITY
  /\ fuelConsumption' = initialFuelConsumption
  /\ velocityLimit' = INITIAL_VELOCITY_LIMIT
  /\ maxGravityReached' = FALSE
  /\ ~gameOver' /\ ~gameWon'
  /\ TerrainRegenerated
  /\ Flying(lander')

C10_TerminalStates ==
  [][/\ ~gameOver /\ gameOver'
          => /\ lander.crashed \/ verdict' = "Crashed"
             /\ lander'.crashed /\ lives <= 1 /\ lives' = lives
     /\ ~gameWon /\ gameWon'
          => /\ lander.landed /\ lander'.landed
             /\ level >= WinLevel(State) /\ signal'.accepted
     /\ (gameOver \/ gameWon) /\ ~signal'.continue
          => UNCHANGED << lives, level, gravity, fuelConsumption, lander,
                          gameOver, gameWon >>]_vars

\* C10 witness: a GameWon state that an Update without continue has left alone
C10_Witness ==
  gameWon /\ ~signal.accepted /\ ~signal.continue /\ lander.landed

\* C11: while the craft is landed and no more than inputDelay has passed
\* since its landingTime (the landing tick included), an Update changes none
\* of level, gravity, fuel-burn rate, lives, terrain and craft, continue signal
\* or not; once more than inputDelay has passed, a continue signal polled by a
\* running Update is accepted. The acknowledgement of a crash and the restart
\* from GameOver or GameWon wait for no delay: a continue signal on the crash
\* tick itself respawns the craft.
C11_InputDelay ==
  [][/\ lander.landed /\ ~signal'.waited
          => UNCHANGED << level, gravity, fuelConsumption, lives,
                          terrainPoints, lander >>
     /\ verdict' = "Landed"
          => /\ ~signal'.accepted /\ lander'.landed
             /\ UNCHANGED << level, gravity, terrainPoints >>
     /\ signal'.accepted => signal'.waited
     /\ signal'.waited /\ ~gameWon /\ signal'.continue /\ signal'.ran
          => signal'.accepted /\ (gameWon' \/ level' = level + 1)
     /\ verdict' = "Crashed" /\ lives > 1 /\ signal'.continue
          => lives' = lives - 1 /\ Flying(lander')
     /\ FullReset => level' = InitialLevel /\ lives' = InitialLives]_vars

\* C11 witness: a continue signal polled by a running Update exactly
\* inputDelay after the landing, and ignored
C11_Witness ==
  /\ lander.landed /\ verdict = "Idle"
  /\ signal.continue /\ signal.ran /\ ~signal.waited /\ ~signal.accepted
  /\ now = lander.landingTime + inputDelay

\* C12: a level advance that does not win leaves the craft exactly as
\* Lander::Reset leaves it (fuel 100, start position, angle 0, zero velocity,
\* flying) on a freshly drawn pad, regenerates the terrain for that pad, and
\* leaves lives unchanged and level one higher.
C12_AdvanceKeepsLives ==
  [][Advance
       => /\ lander' = FreshCraft
          /\ lander'.fuel = FullFuel /\ lander'.angle = 0
          /\ lander'.velocityX = 0 /\ lander'.velocityY = 0
          /\ lander'.landerX = (gameScreenWidth * 1000) \div 2
          /\ lander'.landerY = StartY
          /\ lander'.landingPadX \in PadXs
          /\ Flying(lander')
          /\ TerrainRegenerated
          /\ lives' = lives
          /\ level' = level + 1]_vars

\* C12 witness: the craft after a level advance made with a life already lost,
\* on a pad other than the one it landed on
C12_Witness ==
  /\ signal.accepted /\ ~gameWon
  /\ level = InitialLevel + 1 /\ lives = InitialLives - 1
  /\ Flying(lander) /\ lander.fuel = FullFuel
  /\ lander.landingPadX # CHOOSE p \in PadXs : TRUE

\* this step is a call of Lander::Update, of Lander::Reset
Stepped == tick'.op = "Update" /\ tick'.n = tick.n + 1
WasReset == tick'.op = "Reset" /\ tick' # tick

\* C13: over every call of Lander::Update, whatever the inputs and dt, fuel
\* does not increase, stays within 0 and 100, and stays 0 once it is 0; only
\* Lander::Reset sets it back, to 100.
C13_FuelMonotone ==
  [][/\ Stepped
          => /\ lander'.fuel <= lander.fuel
             /\ lander'.fuel >= 0 /\ lander'.fuel <= FullFuel
             /\ lander.fuel = 0 => lander'.fuel = 0
     /\ WasReset => lander'.fuel = FullFuel]_vars

\* C13 witness: a craft in flight whose fuel is 0 after a second call that
\* held thrust and rotation
C13_Witness ==
  /\ tick.op = "Update" /\ tick.n = MaxTicks
  /\ tick.thrusting /\ tick.rotatingLeft
  /\ Flying(lander) /\ lander.fuel = 0

\* C14 (as claimed): in a call with thrust and a rotate input held in which
\* the thrust burn brings fuel to 0, the angle is unchanged.
C14_NoRotationOnceEmpty ==
  [][(/\ Stepped /\ Flying(lander)
      /\ tick'.thrusting /\ (tick'.rotatingLeft \/ tick'.rotatingRight)
      /\ lander.fuel > 0 /\ lander.fuel <= fuelConsumption * tick'.dt)
       => lander'.angle = lander.angle]_vars

\* C15: a call on a craft in flight whose fuel is 0 leaves velocityX, the
\* angle and the fuel as they are whatever inputs are held, and adds
\* gravity * dt to velocityY (which the clamp at the top of the screen may
\* then zero).
C15_EmptyTank ==
  [][Stepped /\ Flying(lander) /\ lander.fuel = 0
       => /\ lander'.velocityX = lander.velocityX
          /\ lander'.angle = lander.angle
          /\ lander'.fuel = 0
          /\ \/ lander'.velocityY = lander.velocityY + gravity * tick'.dt
             \/ /\ lander.landerY + lander.velocityY + gravity * tick'.dt < 0
                /\ lander'.velocityY = 0 /\ lander'.landerY = 0]_vars

\* C15 witness: an upright craft with an empty tank after a call that held
\* thrust and rotate-left, still upright and without drift
C15_Witness ==
  /\ tick.op = "Update"
  /\ tick.thrusting /\ tick.rotatingLeft /\ ~tick.rotatingRight
  /\ lander.fuel = 0 /\ lander.angle = 0 /\ lander.velocityX = 0
  /\ lander.velocityY = gravity * tick.dt

\* C16 (as claimed): a call of Lander::Update takes a stored angle within
\* [0, 360) to a stored angle within [0, 360).
C16_AngleStoredMod360 ==
  [][Stepped /\ lander.angle >= 0 /\ lander.angle < 360
       => lander'.angle >= 0 /\ lander'.angle < 360]_vars

\* C17 (as claimed, with both ends of the interval allowed): a call of
\* Lander::Update takes a stored angle whose normalized angle is within
\* [-180, 180] to one whose normalized angle is within [-180, 180].
C17_NormalizedRange ==
  [][Stepped /\ Abs(NormalizedAngle(lander.angle)) <= 180
       => Abs(NormalizedAngle(lander'.angle)) <= 180]_vars

\* the craft is less than AngleTolerance degrees from vertical
NearVertical(angle) ==
  angle % 360 < AngleTolerance \/ angle % 360 > 360 - AngleTolerance

\* the terrain under x: the interpolated height of the first segment that
\* holds x
GroundAt(terrain, x) ==
  TerrainHeight(terrain,
                CHOOSE i \in 0..(TERRAIN_POINTS - 2) :
                   /\ terrain[i].x <= x /\ x <= terrain[i + 1].x
                   /\ \A j \in 0..(i - 1) : ~(terrain[j].x <= x /\ x <= terrain[j + 1].x),
                x)

\* C18 (as claimed): a call that detects contact with both velocities below
\* the limit, the craft less than 15 degrees from vertical and its centre
\* within 50 of the pad's centre leaves the craft landed.
C18_GoodContactLands ==
  [][(/\ Stepped /\ verdict' \in {"Landed", "Crashed"}
      /\ Abs(lander'.velocityX) < velocityLimit
      /\ Abs(lander'.velocityY) < velocityLimit
      /\ NearVertical(lander'.angle)
      /\ Abs(CenterX(lander') - lander'.landingPadX) <= LandingPadHalfWidth)
       => lander'.landed]_vars

\* one of the landing conditions fails for craft l
ConditionFails(l) ==
  \/ Abs(CenterX(l) - l.landingPadX) > LandingPadHalfWidth
  \/ Abs(l.velocityX) >= velocityLimit
  \/ Abs(l.velocityY) >= velocityLimit
  \/ Abs(NormalizedAngle(l.angle)) >= AngleTolerance

\* C19: in a call on a craft in flight, if the bottom of the collision box
\* after the move is at or below the terrain under the craft's centre the
\* craft is landed or crashed, and crashed whenever its centre is off the pad,
\* a velocity is at or above the limit or the normalized angle is at or beyond
\* 15; if the bottom is above the terrain the craft stays in flight.
C19_ContactNeverNone ==
  [][Stepped /\ Flying(lander)
       => IF tick'.bottom >= GroundAt(terrainPoints, CenterX(lander'))
          THEN /\ lander'.landed # lander'.crashed
               /\ ConditionFails(lander') => lander'.crashed
          ELSE Flying(lander')]_vars

\* C19 witness: a crash over the pad's centre, upright and without drift,
\* at exactly the velocity limit
C19_Witness ==
  /\ verdict = "Crashed" /\ lander.crashed /\ ~lander.landed
  /\ lander.velocityY = velocityLimit
  /\ lander.velocityX = 0 /\ lander.angle = 0
  /\ CenterX(lander) = lander.landingPadX

\* C20: a call of Lander::Update on a landed or crashed craft changes no
\* field of it, whatever the inputs and dt; the craft stays landed or
\* crashed until Lander::Reset.
C20_TerminalTick ==
  [][/\ Stepped /\ ~Flying(lander) => lander' = lander
     /\ ~Flying(lander) /\ ~WasReset
          => lander'.landed = lander.landed /\ lander'.crashed = lander.crashed]_vars

\* C20 witness: a landed craft after a call that held thrust and rotation
C20_Witness ==
  /\ tick.op = "Update" /\ verdict = "Idle"
  /\ tick.thrusting /\ tick.rotatingRight
  /\ lander.landed

\* the points neither smoothing pass may write: the two ends and the points
\* within the pad's half width plus one spacing of the pad's centre
Protected(i, pad) ==
  \/ i = 0 \/ i = TERRAIN_POINTS - 1
  \/ /\ TerrainX(i) >= pad - LandingPadHalfWidth - SegmentWidth
     /\ TerrainX(i) <= pad + LandingPadHalfWidth + SegmentWidth

\* the terrain is what the two passes leave of the first loop's points under
\* some seed, and neither the copy smoothed by the first pass nor the final
\* terrain differs from those points at a protected point
PassesKeepProtected(terrain, pad) ==
  \E seed \in 1..NumSeeds :
     LET raw == RawPoints(pad, seed)
         smoothedPoints == SmoothPass(raw, raw, pad)
     IN /\ terrain = SecondPass(raw, smoothedPoints, pad)
        /\ \A i \in 0..(TERRAIN_POINTS - 1) :
              Protected(i, pad)
                => smoothedPoints[i] = raw[i] /\ terrain[i] = raw[i]

\* C21: in every generated terrain each point whose X lies within 50 of the
\* pad's centre has exactly the pad height, screen height - 50, and the two
\* smoothing passes leave the points within 50 plus one spacing of the pad's
\* centre, and the first and the last point, as the first loop set them.
C21_PadFlat ==
  /\ \A i \in 0..(TERRAIN_POINTS - 1) :
        Abs(terrainPoints[i].x - lander.landingPadX) <= LandingPadHalfWidth
          => terrainPoints[i].y = (gameScreenHeight - 50) * 1000
  /\ PassesKeepProtected(terrainPoints, lander.landingPadX)

\* C21 witness: a terrain with three points on the pad, for a pad at the
\* lowest position the generator is given, whose neighbours outside the
\* protected region were smoothed
C21_Witness ==
  /\ lander.landingPadX = PadMargin
  /\ Cardinality({ i \in 0..(TERRAIN_POINTS - 1) :
                     Abs(terrainPoints[i].x - lander.landingPadX)
                       <= LandingPadHalfWidth }) >= 3
  /\ \E i \in 1..(TERRAIN_POINTS - 2) :
        terrainPoints[i] # RawPoints(lander.landingPadX, 1)[i]
          /\ terrainPoints[i] # RawPoints(lander.landingPadX, 2)[i]

\* the craft that differs from l by one full turn of its stored angle
Twin(l) ==
  [l EXCEPT !.angle = IF l.angle > 0 THEN l.angle - 360 ELSE l.angle + 360]

\* C22 (as claimed): a call without rotate input that brings a craft to
\* contact gives it the outcome the same call gives the craft whose stored
\* angle differs by 360.
C22_OutcomeModulo360 ==
  [][(/\ Stepped /\ Flying(lander) /\ lander.angle # 0
      /\ ~tick'.rotatingLeft /\ ~tick'.rotatingRight
      /\ verdict' \in {"Landed", "Crashed"})
       => LET twin == LanderUpdate(Twin(lander), terrainPoints, gravity,
                                   fuelConsumption, velocityLimit, tick'.dt,
                                   tick'.thrusting, FALSE, FALSE,
                                   now + tick'.dt)
          IN twin.landed = lander'.landed /\ twin.crashed = lander'.crashed]_vars

\* dt is counted in tenths of a second
DtPerSecond == 10

\* C23 (as claimed): in a call on a craft in flight with fuel and exactly one
\* rotate input held, away from the wrap at 360, the angle changes by
\* rotationSpeed * dt: up for left, down for right.
C23_RotationTimesDt ==
  [][(/\ Stepped /\ Flying(lander) /\ lander.fuel > 0
      /\ tick'.rotatingLeft # tick'.rotatingRight
      /\ Abs(lander.angle) + LanderRotationSpeed < 360)
       => DtPerSecond * (lander'.angle - lander.angle)
            = IF tick'.rotatingLeft THEN LanderRotationSpeed * tick'.dt
                                    ELSE -(LanderRotationSpeed * tick'.dt)]_vars

\* C24 (as claimed): after a call that detects contact, the bottom edge of
\* the collision box is at the interpolated terrain height under the craft's
\* centre.
C24_RestsOnSurface ==
  [][Stepped /\ verdict' \in {"Landed", "Crashed"}
       => CollisionBottom(lander')
            = GroundAt(terrainPoints, CenterX(lander'))]_vars

\* Game::GetCrashReason: the text shown with "Crashed!", from the state the
\* craft was left in
GetCrashReason(l, vlimit) ==
  LET vx == Abs(l.velocityX)
      vy == Abs(l.velocityY)
      badAngle == Abs(NormalizedAngle(l.angle)) >= AngleTolerance
      highVelocityX == vx >= vlimit
      highVelocityY == vy >= vlimit
      nearPad == Abs(CenterX(l) - l.landingPadX) <= LandingPadHalfWidth
  IN IF ~l.crashed THEN ""
     ELSE IF ~nearPad THEN "Missed the landing pad!"
     ELSE IF badAngle /\ (highVelocityX \/ highVelocityY)
          THEN "Bad angle and too fast!"
     ELSE IF badAngle THEN "Bad landing angle!"
     ELSE IF highVelocityX /\ highVelocityY
          THEN "Too fast - both horizontal and vertical!"
     ELSE IF highVelocityX THEN "Too fast - horizontal velocity!"
     ELSE IF highVelocityY THEN "Too fast - vertical velocity!"
     ELSE "Something went wrong!"

\* the texts that report a crash by speed alone
SpeedReasons ==
  {"Too fast - both horizontal and vertical!",
   "Too fast - horizontal velocity!", "Too fast - vertical velocity!"}

\* C25 (as claimed): a crashed craft is given the first reason that applies
\* of off the pad, bad angle and too fast, bad angle, too fast: off the pad
\* whatever the velocity and angle, and bad angle when it is on the pad with
\* both velocities under the limit and the normalized angle at or beyond 15.
C25_CrashReasonAssigned ==
  lander.crashed =>
    LET reason == GetCrashReason(lander, velocityLimit)
        offPad == Abs(CenterX(lander) - lander.landingPadX) > LandingPadHalfWidth
        bad == Abs(NormalizedAngle(lander.angle)) >= AngleTolerance
        fast == \/ Abs(lander.velocityX) >= velocityLimit
                \/ Abs(lander.velocityY) >= velocityLimit
    IN IF offPad THEN reason = "Missed the landing pad!"
       ELSE IF bad /\ fast THEN reason = "Bad angle and too fast!"
       ELSE IF bad THEN reason = "Bad landing angle!"
       ELSE fast /\ reason \in SpeedReasons

\* C26: counting the crashes since the run started (construction or the last
\* full reset), whatever landings and level advances come between them, the
\* first and the second crash do not end the run and the third does, in the
\* Update that detects it; GameOver is entered in no other way, and from
\* GameOver the craft stays crashed until the full reset.
C26_ThirdCrashEndsRun ==
  [][/\ (verdict' = "Crashed" /\ crashes' < InitialLives => ~gameOver')
     /\ (verdict' = "Crashed" /\ crashes' >= InitialLives => gameOver')
     /\ (gameOver' /\ ~gameOver
           => verdict' = "Crashed" /\ crashes' = InitialLives)
     /\ (gameOver /\ ~FullReset
           => gameOver' /\ lander'.crashed /\ ~Flying(lander')
              /\ crashes' = crashes)]_vars

\* C26 witness: GameOver on the third crash of a run that advanced a level
C26_Witness ==
  gameOver /\ crashes = InitialLives /\ verdict = "Crashed" /\ level > InitialLevel

\* C27: in every reachable state lives is within 1..3 and level is within 1
\* and the win threshold of the build (15 with the keyboard, 10 with touch).
C27_LivesAndLevelRange ==
  /\ lives >= 1 /\ lives <= InitialLives
  /\ level >= InitialLevel /\ level <= WinLevel(State)

\* C27 witness: the craft in flight at the win threshold with one life left
C27_Witness ==
  level = WinLevel(State) /\ lives = 1 /\ Flying(lander) /\ crashes = InitialLives - 1

\* C28: in every reachable state the terrain is one that Randomize generates
\* for the craft's current landingPadX, after construction and after every
\* crash acknowledge, level advance and full reset, so every terrain point
\* within the pad's half width of landingPadX is at the pad height.
C28_TerrainForPad ==
  /\ \E r \in Draws :
        r.pad = lander.landingPadX /\ terrainPoints = Terrains[r]
  /\ \A i \in 0..(TERRAIN_POINTS - 1) :
        Abs(terrainPoints[i].x - lander.landingPadX) <= LandingPadHalfWidth
          => terrainPoints[i].y = LandingPadHeight

\* C28 witness: after a level advance the terrain is the one for the craft's
\* new pad, not the one for another pad, and has flat points on the pad
C28_Witness ==
  /\ signal.regenerated /\ signal.accepted /\ level > InitialLevel
  /\ \E r \in Draws :
        /\ r.pad = lander.landingPadX /\ terrainPoints = Terrains[r]
        /\ \E q \in Draws : terrainPoints # Terrains[q]
  /\ \E i \in 0..(TERRAIN_POINTS - 1) :
        Abs(terrainPoints[i].x - lander.landingPadX) <= LandingPadHalfWidth

\* the first-run screen, the pause, the lost focus or the exit menu holds the
\* session, which is in neither GameOver nor GameWon
Held ==
  /\ firstTimeGameStart \/ paused \/ lostWindowFocus \/ isInExitMenu
  /\ ~gameOver /\ ~gameWon

\* no pause, focus or menu event takes effect in this Update
SameScreen ==
  UNCHANGED << paused, lostWindowFocus, isInExitMenu, exitWindowRequested,
               exitWindow >>

\* the variables of the program; the others record its history
ProgramUnchanged ==
  UNCHANGED << isMobile, firstTimeGameStart, isInExitMenu, paused,
               lostWindowFocus, gameOver, gameWon, exitWindowRequested,
               exitWindow, lives, level, gravity, maxGravityReached,
               velocityLimit, fuelConsumption, lander, terrainPoints,
               touchWasThrusting >>

\* C29 (as claimed): an Update with dt > 0 of a held session, in which no
\* pause, focus or menu event takes effect, leaves the craft, lives, level,
\* gravity and the fuel-burn rate unchanged whatever thrust, rotate and
\* continue inputs it polls; so does an Update of a paused session that polls
\* the continue signal; an Update with dt = 0 changes nothing.
C29_FrozenWhileHeld ==
  [][/\ (signal'.elapsed /\ Held /\ SameScreen
           => UNCHANGED << lander, lives, level, gravity, fuelConsumption >>)
     /\ (signal'.elapsed /\ Held /\ paused /\ signal'.continue
           => UNCHANGED << lander, lives, level, gravity, fuelConsumption >>)
     /\ (~signal'.elapsed => ProgramUnchanged)]_vars

\* C29 (amended): such an Update leaves level, gravity and the fuel-burn
\* rate unchanged, and the craft and lives too unless it is the Update that
\* polls the start signal on the first-run screen with nothing else holding
\* the session: that Update clears firstTimeGameStart and runs the
\* simulation, so the craft is stepped once, and if that step crashes it and
\* the continue signal is polled the crash is acknowledged at once, for a
\* life. An Update of a paused session that polls the continue signal changes
\* none of them, and an Update with dt = 0 changes nothing.
C29_FrozenUnlessStarted ==
  [][/\ (signal'.elapsed /\ Held /\ SameScreen
           => /\ UNCHANGED << level, gravity, fuelConsumption >>
              /\ IF signal'.ran
                 THEN /\ firstTimeGameStart /\ ~firstTimeGameStart'
                      /\ ~paused /\ ~lostWindowFocus /\ ~isInExitMenu
                      /\ \/ lives' = lives /\ SteppedOnce(lander, lander')
                         \/ /\ verdict' = "Crashed" /\ signal'.continue
                            /\ lives' = lives - 1 /\ lander' = FreshCraft
                 ELSE UNCHANGED << lander, lives >>)
     /\ (signal'.elapsed /\ Held /\ paused /\ signal'.continue
           => UNCHANGED << lander, lives, level, gravity, fuelConsumption >>)
     /\ (~signal'.elapsed => ProgramUnchanged)]_vars

\* C29 witness: a paused session whose landed craft has waited out the input
\* delay, after an Update that polled the continue signal and did not run
C29_Witness ==
  /\ paused /\ signal.elapsed /\ signal.continue /\ signal.waited
  /\ ~signal.ran /\ ~signal.accepted /\ lander.landed /\ level = InitialLevel

\* C29 witness of the frame of no length: a session in flight after an Update
\* with dt = 0
C29_ZeroWitness ==
  ~signal.elapsed /\ ~firstTimeGameStart /\ Flying(lander) /\ lander.velocityY > 0

\* C30: if calls of Lander::Update with dt > 0 keep coming, a craft in flight
\* is eventually landed or crashed, whatever inputs are held.
C30_FlightEnds ==
  Flying(lander) ~> (lander.landed \/ lander.crashed)

\* C30 witness: the end of a flight that burnt the whole tank and turned the
\* craft
C30_Witness ==
  /\ ~Flying(lander) /\ verdict \in {"Landed", "Crashed"}
  /\ lander.fuel = 0 /\ lander.angle # 0

=============================================================================
